---- MODULE Spec2Model ----
(***************************************************************************)
(* Model of the category subscription engine of message-db                 *)
(* (src/src/database/consumer.rs): MessageDb::subscribe_to_category builds *)
(* a CategoryStream, and CategoryStream::poll_next turns batch fetches     *)
(* into a stream of items while writing consumer-position checkpoints.     *)
(*                                                                         *)
(* The message store is modelled by the category's messages (log) and the *)
(* consumer position stream (ckpt).  A future is modelled by its stage:    *)
(*   "armed"    created, never polled (nothing sent, no waker registered)  *)
(*   "inflight" polled at least once, not complete                         *)
(*   "ready"    its result is available; the next poll returns Ready       *)
(*   "done"     a poll returned Ready; polling it again panics             *)
(***************************************************************************)
EXTENDS Integers, Sequences, FiniteSets, TLC

\* ---------------------------------------------------------------- bounds
MaxMsgs == 3
MaxRuns == 2
MaxInterval == 2
\* messages whose data does not decode into the consumer's type
MaxBad == 1

\* poll_interval in abstract time units
PollInterval == 1
\* fetch latencies: shorter than, equal to and longer than the poll interval
MaxElapsed == 2

\* ------------------------------------------------------------- constants
NoElapsed == -1
NoGp == 0
NoPosition == -1
NoVersion == -1

VARIABLES
    log,                                  \* category messages in the store
    ckpt,                                 \* records of the consumer position stream
    run,                                  \* number of engines started so far
    status,                               \* "running" | "panicked"
    fut,                                  \* CategoryStream.fut
    messages,                             \* CategoryStream.messages
    position_update_interval,             \* CategoryStream.position_update_interval
    messages_since_last_position_update,  \* CategoryStream.messages_since_last_position_update
    update_position_future,               \* CategoryStream.update_position_future
    expected_position_version,            \* CategoryStream.expected_position_version
    batch_size,                           \* SubscribeToCategoryOpts.batch_size
    lastRet,                              \* what the last poll_next returned
    lastMsgGp,                            \* global_position of the previous message item of this run
    emittedRun,                           \* global positions emitted as messages by this run
    start,                                \* first fetch position and expected version of this run
    failedWrite,                          \* position of the first failed checkpoint write of this run and of the previous run
    lastElapsed,                          \* poll_time.elapsed() read by the last poll_next, if it read it
    call                                  \* the last call of a stream-name or metadata function: name, arguments, result

vars == <<log, ckpt, run, status, fut, messages, position_update_interval,
          messages_since_last_position_update, update_position_future,
          expected_position_version, batch_size, lastRet, lastMsgGp,
          emittedRun, start, failedWrite, lastElapsed, call>>

\* no call yet: `op` is "none", or "input" while `input` is being prepared
ToCall(op, input) == [op |-> op, arg |-> input, ret |-> <<>>, done |-> FALSE]

\* no stream-name or metadata function is called
NoCall == ToCall("none", <<>>)

engine == <<status, fut, messages, messages_since_last_position_update,
            update_position_future, expected_position_version>>

\* ------------------------------------------------------------- helpers
Last(s) == s[Len(s)]

Take(s, n) == SubSeq(s, 1, IF n < Len(s) THEN n ELSE Len(s))

\* a delay that ignores the time the fetch took
fixed_delay(a, b) == a

\* Duration::saturating_sub
saturating_sub(a, b) == IF a > b THEN a - b ELSE 0

\* the stream-local position of the last message of the position stream
\* (message_store.stream_version), -1 for an empty stream
stream_version == Len(ckpt) - 1

\* a query that ignores the position
get_category_messages_from_start(opts) == Take(log, opts.batch_size)

\* message_store.get_category_messages: the messages of the category at or
\* after `position`, ascending, at most batch_size of them
get_category_messages(opts) ==
    Take(SelectSeq(log, LAMBDA m : m.gp >= opts.position), opts.batch_size)

\* DeserializeMessage for Vec<GenericMessage>: Ok iff every message decodes
\* a decode that looks at the first message only
deserialize_first(msgs) == msgs[1].ok

deserialize_messages(msgs) == \A i \in DOMAIN msgs : msgs[i].ok

NoOpts ==
    [position |-> NoPosition, batch_size |-> 0, correlation |-> "None",
     consumer_group_member |-> "None", consumer_group_size |-> "None",
     condition |-> "None"]

NoResult == [ok |-> TRUE, msgs |-> <<>>]

\* make_future: a fetch of `opts` that starts after `sleep`
make_future(opts, sleep) ==
    [st |-> "armed", opts |-> opts, sleep |-> sleep, res |-> NoResult]

NoWrite == [st |-> "none", pos |-> NoGp, ev |-> NoVersion, res |-> "none"]

\* a write that expects whatever version the position stream has
make_unversioned_position_future(pos, expected_version) ==
    [st |-> "armed", pos |-> pos, ev |-> stream_version, res |-> "none"]

\* make_update_position_future: a conditional write of {position: pos}
make_update_position_future(pos, expected_version) ==
    [st |-> "armed", pos |-> pos, ev |-> expected_version, res |-> "none"]

\* Future::poll on a future that has not completed before; the first poll
\* starts the future, whose delay is then served while it is in flight
polled(f) ==
    IF f.st = "armed" THEN [f EXCEPT !.st = "inflight", !.sleep = 0]
    ELSE IF f.st = "ready" THEN [f EXCEPT !.st = "done"]
    ELSE f

\* the fetch slot of an engine that no longer exists
Dropped == [st |-> "done", opts |-> NoOpts, sleep |-> 0, res |-> NoResult]

Ret(kind, gp) == [kind |-> kind, gp |-> gp]

\* --------------------------------------------- subscribe_to_category
\* mutant: the number of checkpoint messages instead of the last one's position
subscribe_expected_version_count == Len(ckpt)

\* expected_version: the position of the last message of the position stream
subscribe_expected_version ==
    IF ckpt = <<>> THEN NoVersion ELSE Len(ckpt) - 1

\* mutant: resumes at the recorded position itself
subscribe_last_position_same ==
    IF ckpt = <<>> THEN NoPosition ELSE Last(ckpt).position

\* mutant: resumes two past the recorded position
subscribe_last_position_skip ==
    IF ckpt = <<>> THEN NoPosition ELSE Last(ckpt).position + 2

\* mutant: resumes at the start of the category
subscribe_last_position_start == NoPosition

\* last_position: the recorded position + 1
subscribe_last_position ==
    IF ckpt = <<>> THEN NoPosition ELSE Last(ckpt).position + 1

subscribe_opts(bs) ==
    [position |-> subscribe_last_position,
     batch_size |-> bs,
     correlation |-> "None",
     consumer_group_member |-> "None",
     consumer_group_size |-> "None",
     condition |-> "None"]

Subscribed(intervals, batch_sizes, calls) ==
    /\ log = <<>>
    /\ ckpt = <<>>
    /\ run = 1
    /\ status = "running"
    /\ position_update_interval \in intervals
    /\ batch_size \in batch_sizes
    /\ fut = make_future(subscribe_opts(batch_size), 0)
    /\ messages = <<>>
    /\ messages_since_last_position_update = 0
    /\ update_position_future = NoWrite
    /\ expected_position_version = subscribe_expected_version
    /\ lastRet = Ret("none", NoGp)
    /\ lastMsgGp = NoGp
    /\ emittedRun = {}
    /\ start = [position |-> subscribe_last_position, version |-> subscribe_expected_version]
    /\ failedWrite = [this |-> NoGp, prev |-> NoGp]
    /\ lastElapsed = NoElapsed
    /\ call \in calls

\* one message per fetch, or as many as the category can hold
Init == Subscribed(0..MaxInterval, {1, MaxMsgs}, {NoCall})

\* The engine is dropped (crash or shutdown; its pending fetch and its
\* in-flight checkpoint write are cancelled) and a new one is subscribed.
Subscribe ==
    /\ run < MaxRuns
    /\ UNCHANGED call
    /\ run' = run + 1
    /\ status' = "running"
    /\ fut' = make_future(subscribe_opts(batch_size), 0)
    /\ messages' = <<>>
    /\ messages_since_last_position_update' = 0
    /\ update_position_future' = NoWrite
    /\ expected_position_version' = subscribe_expected_version
    /\ lastRet' = Ret("none", NoGp)
    /\ lastMsgGp' = NoGp
    /\ start' = [position |-> subscribe_last_position, version |-> subscribe_expected_version]
    /\ emittedRun' = {}
    /\ failedWrite' = [this |-> NoGp, prev |-> failedWrite.this]
    /\ lastElapsed' = NoElapsed
    /\ UNCHANGED <<log, ckpt, position_update_interval, batch_size>>

\* ------------------------------------------------------ the message store
\* The store-wide position of the n-th message of the category: every
\* third position of the store belongs to a message of another category,
\* so the category's positions are 1, 2, 4, 5, 7, ... (with gaps).
global_position(n) == n + ((n - 1) \div 2)

Bad == Cardinality({i \in DOMAIN log : ~log[i].ok})

\* A producer writes a message to a stream of the category.
WriteMessage(capacity) ==
    /\ Len(log) < capacity
    /\ UNCHANGED call
    /\ \E ok \in BOOLEAN :
          /\ ~ok => Bad < MaxBad
          /\ log' = Append(log, [gp |-> global_position(Len(log) + 1), ok |-> ok])
    /\ UNCHANGED <<ckpt, run, engine, position_update_interval, batch_size,
                   lastRet, lastMsgGp, emittedRun, start, failedWrite, lastElapsed>>

WriteCategoryMessage == WriteMessage(MaxMsgs)

\* The pending fetch completes: the query ran against the store, or failed.
FetchCompletes(failed) ==
    /\ status = "running"
    /\ UNCHANGED call
    /\ fut.st = "inflight"
    /\ fut' = [fut EXCEPT !.st = "ready",
                          !.res = IF failed
                                  THEN [ok |-> FALSE, msgs |-> <<>>]
                                  ELSE [ok |-> TRUE, msgs |-> get_category_messages(fut.opts)]]
    /\ UNCHANGED <<log, ckpt, run, status, messages, position_update_interval,
                   messages_since_last_position_update, update_position_future,
                   expected_position_version, batch_size, lastRet, lastMsgGp,
                   emittedRun, start, failedWrite, lastElapsed>>

FetchComplete == \E failed \in BOOLEAN : FetchCompletes(failed)

\* write_message with expected_version: appended iff the version matches
write_message(w, io_error) ==
    IF io_error THEN "ioerr"
    ELSE IF w.ev = stream_version THEN "ok" ELSE "conflict"

\* The in-flight checkpoint write completes.
WriteComplete ==
    /\ status = "running"
    /\ UNCHANGED call
    /\ update_position_future.st = "inflight"
    /\ \E io_error \in BOOLEAN :
          LET res == write_message(update_position_future, io_error)
          IN /\ update_position_future' =
                    [update_position_future EXCEPT !.st = "ready", !.res = res]
             /\ ckpt' = IF res = "ok"
                        THEN Append(ckpt, [position |-> update_position_future.pos])
                        ELSE ckpt
             /\ failedWrite' = IF res # "ok" /\ failedWrite.this = NoGp
                               THEN [failedWrite EXCEPT !.this = update_position_future.pos]
                               ELSE failedWrite
    /\ UNCHANGED <<log, run, status, fut, messages, position_update_interval,
                   messages_since_last_position_update, expected_position_version,
                   batch_size, lastRet, lastMsgGp, emittedRun, start, lastElapsed>>

\* ------------------------------------------------ CategoryStream::poll_next
\* mutant: the position is never advanced
next_opts_stuck(result, opts) == opts

\* mutant: the next fetch starts at the last message instead of one past it
next_opts_last(result, opts) ==
    IF result.ok /\ result.msgs # <<>>
    THEN [opts EXCEPT !.position = Last(result.msgs).gp]
    ELSE opts

\* lines 271-273: the options of the re-armed fetch
next_opts(result, opts) ==
    IF result.ok /\ result.msgs # <<>>
    THEN [opts EXCEPT !.position = Last(result.msgs).gp + 1]
    ELSE opts

\* line 288: the checkpoint threshold
\* a threshold that must be exceeded
threshold_exceeded(since, interval) == since > interval

threshold_reached(since, interval) == since >= interval

\* the position of the last message of the batch
checkpoint_position_last(msgs) == Last(msgs).gp

\* line 289: the position a checkpoint write records
checkpoint_position(msgs) == Head(msgs).gp

\* an expected version that is never advanced
same_expected_version(v) == v

\* line 299: the version the next checkpoint write will expect
next_expected_version(v) == v + 1

\* a buffer in the reverse order of the batch
buffer_of_reversed(msgs) == [i \in DOMAIN msgs |-> msgs[Len(msgs) + 1 - i]]

\* lines 306-307: the decoded batch becomes the buffer
buffer_of(msgs) == msgs

\* lines 257-269: a completed checkpoint write is logged and cleared
settle_position_future(pos_fut) ==
    IF pos_fut.st = "ready" THEN NoWrite ELSE polled(pos_fut)

\* A poll of a future that already returned Ready panics
\* ("`async fn` resumed after completion"): the engine's task dies.
PollPanics == fut.st = "done" \/ update_position_future.st = "done"

PollNext ==
    /\ status = "running"
    /\ UNCHANGED call
    /\ \E elapsed \in 0..MaxElapsed :
       LET has_first == messages # <<>>
           popped == IF has_first THEN Tail(messages) ELSE messages
           fut_ready == fut.st = "ready"
           result == fut.res
       IN
       IF PollPanics THEN
           \* lines 246-251: pop_front, then the polls of the two futures
           /\ status' = "panicked"
           /\ messages' = popped
           /\ lastRet' = Ret("panic", NoGp)
           /\ lastElapsed' = NoElapsed
           /\ UNCHANGED <<fut, update_position_future,
                          messages_since_last_position_update,
                          expected_position_version, lastMsgGp,
                          emittedRun>>
       ELSE IF has_first THEN
           \* lines 253-255: both futures were polled, their outcome dropped
           /\ messages' = popped
           /\ fut' = polled(fut)
           /\ update_position_future' = polled(update_position_future)
           /\ lastRet' = Ret("msg", Head(messages).gp)
           /\ lastElapsed' = NoElapsed
           /\ lastMsgGp' = Head(messages).gp
           /\ emittedRun' = emittedRun \cup {Head(messages).gp}
           /\ UNCHANGED <<status, messages_since_last_position_update,
                          expected_position_version>>
       ELSE IF ~fut_ready THEN
           \* line 270: ready!(fut_poll) returns Pending
           /\ fut' = polled(fut)
           /\ update_position_future' = settle_position_future(update_position_future)
           /\ lastRet' = Ret("pending", NoGp)
           /\ lastElapsed' = NoElapsed
           /\ UNCHANGED <<status, messages, messages_since_last_position_update,
                          expected_position_version, lastMsgGp,
                          emittedRun>>
       ELSE
           \* lines 270-313: the completed fetch is processed
           LET next_fut == make_future(next_opts(result, fut.opts),
                                       saturating_sub(PollInterval, elapsed))
               pos_fut == settle_position_future(update_position_future)
               since == messages_since_last_position_update + Len(result.msgs)
               update == threshold_reached(since, position_update_interval)
           IN
           /\ fut' = next_fut
           /\ lastElapsed' = elapsed
           /\ status' = status
           /\ IF ~result.ok THEN
                  /\ lastRet' = Ret("fetch_err", NoGp)
                  /\ update_position_future' = pos_fut
                  /\ UNCHANGED <<messages, messages_since_last_position_update,
                                 expected_position_version, lastMsgGp,
                                 emittedRun>>
              ELSE IF result.msgs = <<>> THEN
                  /\ lastRet' = Ret("pending", NoGp)
                  /\ update_position_future' = pos_fut
                  /\ UNCHANGED <<messages, messages_since_last_position_update,
                                 expected_position_version, lastMsgGp,
                                 emittedRun>>
              ELSE
                  /\ IF update THEN
                         /\ update_position_future' =
                                make_update_position_future(checkpoint_position(result.msgs),
                                                            expected_position_version)
                         /\ expected_position_version' =
                                next_expected_version(expected_position_version)
                         /\ messages_since_last_position_update' = 0
                     ELSE
                         /\ update_position_future' = pos_fut
                         /\ expected_position_version' = expected_position_version
                         /\ messages_since_last_position_update' = since
                  /\ IF deserialize_messages(result.msgs) THEN
                         /\ messages' = Tail(buffer_of(result.msgs))
                         /\ lastRet' = Ret("msg", Head(buffer_of(result.msgs)).gp)
                         /\ lastMsgGp' = Head(buffer_of(result.msgs)).gp
                         /\ emittedRun' = emittedRun \cup {Head(buffer_of(result.msgs)).gp}
                     ELSE
                         /\ lastRet' = Ret("decode_err", NoGp)
                         /\ UNCHANGED <<messages, lastMsgGp, emittedRun>>
    /\ UNCHANGED <<log, ckpt, run, position_update_interval, batch_size, start, failedWrite>>

Next ==
    \/ PollNext
    \/ FetchComplete
    \/ WriteComplete
    \/ WriteCategoryMessage
    \/ Subscribe

Spec == Init /\ [][Next]_vars

\* One run of an engine whose batches hold a category one message longer,
\* polled fairly, over a store that keeps answering: every pending fetch is
\* eventually answered successfully and every pending write is answered.
MaxMsgsLong == MaxMsgs + 1

InitLong == Subscribed(1..MaxInterval, {MaxMsgsLong}, {NoCall})

WriteLongCategoryMessage == WriteMessage(MaxMsgsLong)

FetchSucceeds == FetchCompletes(FALSE)

NextLong ==
    \/ PollNext
    \/ FetchComplete
    \/ WriteComplete
    \/ WriteLongCategoryMessage

FairSpec ==
    /\ InitLong
    /\ [][NextLong]_vars
    /\ WF_vars(PollNext)
    /\ SF_vars(FetchSucceeds)
    /\ WF_vars(WriteComplete)

TypeOK ==
    /\ status \in {"running", "panicked"}
    /\ fut.st \in {"armed", "inflight", "ready", "done"}
    /\ update_position_future.st \in {"none", "armed", "inflight", "ready", "done"}
    /\ Len(log) <= MaxMsgsLong

\* ------------------------------------------------- stream names (text)
\* A text is a sequence of characters.  "a" and "p" stand for ordinary
\* characters; the word made of the one character "p" stands for the
\* reserved type "position".
MaxLen == 5

Chars == {"a", "p", ":", "+", "-"}

\* Option
None == <<>>
Some(x) == <<x>>

\* Result; the only error of these functions is Error::EmptyStreamName
Ok(v) == [ok |-> TRUE, val |-> v]
EmptyStreamName == [ok |-> FALSE, err |-> "EmptyStreamName"]

ID_SEPARATOR == "-"
CATEGORY_TYPE_SEPARATOR == ":"
COMPOUNT_TYPE_SEPARATOR == "+"
COMPOUND_ID_SEPARATOR == "+"
POSITION_TYPE == <<"p">>

\* str::find: the index of the first c in s at or after i, 0 when there is none
RECURSIVE find(_, _, _)
find(s, c, i) ==
    IF i > Len(s) THEN 0
    ELSE IF s[i] = c THEN i
    ELSE find(s, c, i + 1)

\* the index of the last c in s at or before i, 0 when there is none
RECURSIVE rfind(_, _, _)
rfind(s, c, i) ==
    IF i < 1 THEN 0
    ELSE IF s[i] = c THEN i
    ELSE rfind(s, c, i - 1)

\* str::contains
contains(s, c) == find(s, c, 1) # 0

\* a split at the last separator
rsplit_once(s, c) ==
    LET i == rfind(s, c, Len(s))
    IN IF i = 0 THEN None
       ELSE Some(<<SubSeq(s, 1, i - 1), SubSeq(s, i + 1, Len(s))>>)

\* str::split_once
split_once(s, c) ==
    LET i == find(s, c, 1)
    IN IF i = 0 THEN None
       ELSE Some(<<SubSeq(s, 1, i - 1), SubSeq(s, i + 1, Len(s))>>)

\* str::split
RECURSIVE split(_, _)
split(s, c) ==
    LET i == find(s, c, 1)
    IN IF i = 0 THEN <<s>>
       ELSE <<SubSeq(s, 1, i - 1)>> \o split(SubSeq(s, i + 1, Len(s)), c)

\* the loop of the Display impls: items from the i-th on, sep before each
\* item but the first
RECURSIVE write_separated(_, _, _)
write_separated(items, sep, i) ==
    IF i > Len(items) THEN <<>>
    ELSE (IF i # 1 THEN <<sep>> ELSE <<>>)
            \o items[i] \o write_separated(items, sep, i + 1)

\* Category::new
Category_new(name, tys) ==
    IF name = <<>> THEN EmptyStreamName
    ELSE Ok([entity_name |-> name, types |-> tys])

\* impl FromStr for Category
Category_from_str(s) ==
    LET parts == split_once(s, CATEGORY_TYPE_SEPARATOR)
    IN IF parts # None
       THEN Ok([entity_name |-> parts[1][1],
                types |-> split(parts[1][2], COMPOUNT_TYPE_SEPARATOR)])
       ELSE Ok([entity_name |-> s, types |-> <<>>])

\* a Display that writes the type separator for every category
Category_fmt_colon(c) ==
    c.entity_name \o <<CATEGORY_TYPE_SEPARATOR>>
        \o write_separated(c.types, COMPOUNT_TYPE_SEPARATOR, 1)

\* impl Display for Category
Category_fmt(c) ==
    c.entity_name
        \o (IF c.types # <<>>
            THEN <<CATEGORY_TYPE_SEPARATOR>>
                    \o write_separated(c.types, COMPOUNT_TYPE_SEPARATOR, 1)
            ELSE <<>>)

\* a constructor that accepts empty components
ID_new_compound_unchecked(ids) ==
    IF ids = <<>> THEN EmptyStreamName ELSE Ok(ids)

\* ID::new_compound
ID_new_compound(ids) ==
    IF ids = <<>> \/ \E i \in DOMAIN ids : ids[i] = <<>>
    THEN EmptyStreamName
    ELSE Ok(ids)

\* ID::new
ID_new(s) ==
    IF s = <<>> THEN EmptyStreamName
    ELSE ID_new_compound(split(s, COMPOUND_ID_SEPARATOR))

\* impl FromStr for ID
ID_from_str(s) == ID_new(s)

\* ID::cardinal_id; first().unwrap() panics on an empty vector
ID_cardinal_id(ids) == IF ids = <<>> THEN "panic" ELSE ids[1]

\* a Display that joins the components with the id separator
ID_fmt_dashed(ids) == write_separated(ids, ID_SEPARATOR, 1)

\* impl Display for ID
ID_fmt(ids) == write_separated(ids, COMPOUND_ID_SEPARATOR, 1)

\* StreamName::is_category
StreamName_is_category(stream_name) == contains(stream_name, ID_SEPARATOR)

\* StreamName::category
StreamName_category(stream_name) ==
    LET parts == split_once(stream_name, ID_SEPARATOR)
    IN IF parts # None THEN parts[1][1] ELSE stream_name

\* impl Display for StreamName
StreamName_fmt(x) ==
    Category_fmt(x.category)
        \o (IF x.id # None THEN <<ID_SEPARATOR>> \o ID_fmt(x.id[1]) ELSE <<>>)

\* StreamName::from_str given the way the text is split at the id separator
StreamName_from_parts(s, parts) ==
    IF parts # None
    THEN LET c == Category_from_str(parts[1][1])
             i == ID_from_str(parts[1][2])
         IN IF ~c.ok THEN c
            ELSE IF ~i.ok THEN i
            ELSE Ok([category |-> c.val, id |-> Some(i.val)])
    ELSE LET c == Category_from_str(s)
         IN IF ~c.ok THEN c
            ELSE Ok([category |-> c.val, id |-> None])

\* a parser that splits at the last id separator
StreamName_from_str_last(s) == StreamName_from_parts(s, rsplit_once(s, ID_SEPARATOR))

\* impl FromStr for StreamName
StreamName_from_str(s) == StreamName_from_parts(s, split_once(s, ID_SEPARATOR))

\* a derivation that appends the type whatever the types are
position_stream_name_always(c, consumer_identifier) ==
    LET i == IF consumer_identifier = None THEN Ok(None)
             ELSE LET r == ID_from_str(consumer_identifier[1])
                  IN IF r.ok THEN Ok(Some(r.val)) ELSE r
    IN IF ~i.ok THEN i
       ELSE Ok([category |-> [c EXCEPT !.types = Append(@, POSITION_TYPE)],
                id |-> i.val])

\* a derivation that leaves the consumer identifier out
position_stream_name_shared(c, consumer_identifier) ==
    LET tys == IF ~\E k \in DOMAIN c.types : c.types[k] = POSITION_TYPE
               THEN Append(c.types, POSITION_TYPE)
               ELSE c.types
    IN Ok([category |-> [c EXCEPT !.types = tys], id |-> None])

\* MessageDb::position_stream_name
position_stream_name(c, consumer_identifier) ==
    LET tys == IF ~\E k \in DOMAIN c.types : c.types[k] = POSITION_TYPE
               THEN Append(c.types, POSITION_TYPE)
               ELSE c.types
        i == IF consumer_identifier = None THEN Ok(None)
             ELSE LET r == ID_from_str(consumer_identifier[1])
                  IN IF r.ok THEN Ok(Some(r.val)) ELSE r
    IN IF ~i.ok THEN i
       ELSE Ok([category |-> [c EXCEPT !.types = tys], id |-> i.val])

everything_else == <<log, ckpt, run, status, fut, messages, position_update_interval,
                     messages_since_last_position_update, update_position_future,
                     expected_position_version, batch_size, lastRet, lastMsgGp,
                     emittedRun, start, failedWrite, lastElapsed>>

\* `op` is called with the arguments `arg` and returns `ret`
Returns(op, arg, ret) ==
    /\ call.op = "input"
    /\ call' = [op |-> op, arg |-> arg, ret |-> ret, done |-> TRUE]
    /\ UNCHANGED everything_else

\* the caller prepares a text, one character at a time
TypeChar ==
    /\ call.op = "input"
    /\ Len(call.arg) < MaxLen
    /\ \E c \in Chars : call' = [call EXCEPT !.arg = Append(@, c)]
    /\ UNCHANGED everything_else

\* the text read as a list of arguments separated by '-'
Arguments(text) == split(text, ID_SEPARATOR)

CallStreamNameFromStr ==
    Returns("StreamName::from_str", <<call.arg>>, StreamName_from_str(call.arg))

\* to_string of a stream name the parser produced
CallStreamNameFmt ==
    /\ call.op = "input"
    /\ StreamName_from_str(call.arg).ok
    /\ LET x == StreamName_from_str(call.arg).val
       IN Returns("StreamName::fmt", <<x>>, StreamName_fmt(x))

CallIsCategory ==
    Returns("StreamName::is_category", <<call.arg>>, StreamName_is_category(call.arg))

CallCategory ==
    Returns("StreamName::category", <<call.arg>>, StreamName_category(call.arg))

\* Category::new(first argument, the other arguments)
CallCategoryNew ==
    LET args == Arguments(call.arg)
    IN Returns("Category::new", <<Head(args), Tail(args)>>,
               Category_new(Head(args), Tail(args)))

CallIDNew ==
    Returns("ID::new", <<call.arg>>, ID_new(call.arg))

\* ID::new_compound(the arguments after the first)
CallIDNewCompound ==
    LET args == Arguments(call.arg)
    IN Returns("ID::new_compound", <<Tail(args)>>, ID_new_compound(Tail(args)))

\* position_stream_name(the first argument parsed as a category, the second
\* argument if there is one)
CallPositionStreamName ==
    LET args == Arguments(call.arg)
        c == Category_from_str(Head(args)).val
        identifier == IF Len(args) = 1 THEN None ELSE Some(args[2])
    IN Returns("position_stream_name", <<c, identifier>>,
               position_stream_name(c, identifier))

NamesInit == Subscribed({1}, {1}, {ToCall("input", <<>>)})

NamesNext ==
    \/ TypeChar
    \/ CallStreamNameFromStr
    \/ CallStreamNameFmt
    \/ CallIsCategory
    \/ CallCategory
    \/ CallCategoryNew
    \/ CallIDNew
    \/ CallIDNewCompound
    \/ CallPositionStreamName

NamesSpec == NamesInit /\ [][NamesNext]_vars

\* ------------------------------------------------------------ metadata
\* Stream names and positions of metadata are values 1..MaxVal; every field
\* is an Option.  properties is a set of <<key, value>> pairs.
MaxVal == 2

OptVals == {None} \cup {Some(v) : v \in 1..MaxVal}

\* Metadata::default()
Metadata_default ==
    [stream_name |-> None, position |-> None, global_position |-> None,
     causation_message_stream_name |-> None,
     causation_message_position |-> None,
     causation_message_global_position |-> None,
     correlation_stream_name |-> None, reply_stream_name |-> None,
     properties |-> {}]

\* HashMap::extend: the entries of m2 replace those of m1 with the same key
extend(m1, m2) == {e \in m1 : ~\E f \in m2 : f[1] = e[1]} \cup m2

\* a follow that takes over the causation of the preceding message
follow_causation(self, preceding_metadata) ==
    [self EXCEPT
        !.causation_message_stream_name = preceding_metadata.causation_message_stream_name,
        !.causation_message_position = preceding_metadata.causation_message_position,
        !.causation_message_global_position = preceding_metadata.causation_message_global_position,
        !.correlation_stream_name = preceding_metadata.correlation_stream_name,
        !.reply_stream_name = preceding_metadata.reply_stream_name,
        !.properties = extend(@, preceding_metadata.properties)]

\* a follow that keeps its own reply address
follow_keep_reply(self, preceding_metadata) ==
    [self EXCEPT
        !.causation_message_stream_name = preceding_metadata.stream_name,
        !.causation_message_position = preceding_metadata.position,
        !.causation_message_global_position = preceding_metadata.global_position,
        !.correlation_stream_name = preceding_metadata.correlation_stream_name,
        !.properties = extend(@, preceding_metadata.properties)]

\* Metadata::follow: self after the call
follow(self, preceding_metadata) ==
    [self EXCEPT
        !.causation_message_stream_name = preceding_metadata.stream_name,
        !.causation_message_position = preceding_metadata.position,
        !.causation_message_global_position = preceding_metadata.global_position,
        !.correlation_stream_name = preceding_metadata.correlation_stream_name,
        !.reply_stream_name = preceding_metadata.reply_stream_name,
        !.properties = extend(@, preceding_metadata.properties)]

\* a follows that does not compare the positions
follows_ignoring_position(self, preceding_metadata) ==
    IF self.causation_message_stream_name = None /\ preceding_metadata.stream_name = None
    THEN FALSE
    ELSE IF self.causation_message_stream_name # preceding_metadata.stream_name
    THEN FALSE
    ELSE IF self.causation_message_global_position = None
            /\ preceding_metadata.global_position = None
    THEN FALSE
    ELSE IF self.causation_message_global_position # preceding_metadata.global_position
    THEN FALSE
    ELSE IF preceding_metadata.correlation_stream_name # None
            /\ self.correlation_stream_name # preceding_metadata.correlation_stream_name
    THEN FALSE
    ELSE IF preceding_metadata.reply_stream_name # None
            /\ self.reply_stream_name # preceding_metadata.reply_stream_name
    THEN FALSE
    ELSE TRUE

\* Metadata::follows
follows(self, preceding_metadata) ==
    IF self.causation_message_stream_name = None /\ preceding_metadata.stream_name = None
    THEN FALSE
    ELSE IF self.causation_message_stream_name # preceding_metadata.stream_name
    THEN FALSE
    ELSE IF self.causation_message_position = None /\ preceding_metadata.position = None
    THEN FALSE
    ELSE IF self.causation_message_position # preceding_metadata.position
    THEN FALSE
    ELSE IF self.causation_message_global_position = None
            /\ preceding_metadata.global_position = None
    THEN FALSE
    ELSE IF self.causation_message_global_position # preceding_metadata.global_position
    THEN FALSE
    ELSE IF preceding_metadata.correlation_stream_name # None
            /\ self.correlation_stream_name # preceding_metadata.correlation_stream_name
    THEN FALSE
    ELSE IF preceding_metadata.reply_stream_name # None
            /\ self.reply_stream_name # preceding_metadata.reply_stream_name
    THEN FALSE
    ELSE TRUE

\* the metadata of a message read from the store: its own fields, its flow
\* fields, the one message that caused it (if any) and its properties
Preceding(sn, pos, gp, cause, corr, reply, props) ==
    [Metadata_default EXCEPT
        !.stream_name = sn, !.position = pos, !.global_position = gp,
        !.causation_message_stream_name = cause,
        !.causation_message_position = cause,
        !.causation_message_global_position = cause,
        !.correlation_stream_name = corr, !.reply_stream_name = reply,
        !.properties = props]

\* the metadata of a message whose flow fields are set
Follower(sn, pos, gp, corr, reply, props) ==
    [Metadata_default EXCEPT
        !.causation_message_stream_name = sn,
        !.causation_message_position = pos,
        !.causation_message_global_position = gp,
        !.correlation_stream_name = corr, !.reply_stream_name = reply,
        !.properties = props]

\* the fields the caller sets, in this order
NumFields == 10

\* the caller prepares the fields: it sets one that is not set yet to a value,
\* going through them in order
SetField ==
    /\ call.op = "input"
    /\ \E i \in 1..NumFields, v \in 1..MaxVal :
          /\ \A j \in i..NumFields : call.arg[j] = None
          /\ call' = [call EXCEPT !.arg[i] = Some(v)]
    /\ UNCHANGED everything_else

\* follow on a new message's metadata (the default, or one with every flow
\* field and a property set) and a preceding metadata made of fields 1-5, the
\* message that caused it (field 6) and a property (if field 7 is set)
CallFollow ==
    \E self \in {Metadata_default,
                 Follower(Some(MaxVal), Some(MaxVal), Some(MaxVal), Some(MaxVal),
                          Some(MaxVal), {<<"k", 2>>})} :
        LET f == call.arg
            preceding_metadata ==
                Preceding(f[1], f[2], f[3], f[6], f[4], f[5],
                          IF f[7] = None THEN {} ELSE {<<"k", 1>>})
        IN Returns("Metadata::follow", <<self, preceding_metadata>>,
                   follow(self, preceding_metadata))

\* follows between a preceding metadata made of fields 1-5 and a metadata
\* whose flow fields are fields 6-10: these are all the fields it reads
CallFollows ==
    LET f == call.arg
        self == Follower(f[6], f[7], f[8], f[9], f[10], {})
        preceding_metadata == Preceding(f[1], f[2], f[3], None, f[4], f[5], {})
    IN Returns("Metadata::follows", <<self, preceding_metadata>>,
               follows(self, preceding_metadata))

MetadataInit == Subscribed({1}, {1}, {ToCall("input", [i \in 1..NumFields |-> None])})

MetadataNext ==
    \/ SetField
    \/ CallFollow
    \/ CallFollows

MetadataSpec == MetadataInit /\ [][MetadataNext]_vars

\* ------------------------------------------------ correlation (text)
\* Texts of letters in both cases and the id separator.
MaxNameLen == 3

CorrelationChars == {"a", "A", "-"}

\* char::is_lowercase, char::is_uppercase, char::is_alphanumeric
is_lowercase(c) == c = "a"
is_uppercase(c) == c = "A"
is_alphanumeric(c) == is_lowercase(c) \/ is_uppercase(c)

\* char::to_lowercase, char::to_uppercase
to_lowercase(c) == IF c = "A" THEN "a" ELSE c
to_uppercase(c) == IF c = "a" THEN "A" ELSE c

\* str::to_lowercase
lowercase(s) == [i \in DOMAIN s |-> to_lowercase(s[i])]

\* heck: the first character in upper case, the others in lower case
capitalize(s) ==
    [i \in DOMAIN s |-> IF i = 1 THEN to_uppercase(s[i]) ELSE to_lowercase(s[i])]

\* str::split(|c| !c.is_alphanumeric())
RECURSIVE split_alphanumeric(_, _, _)
split_alphanumeric(s, init, i) ==
    IF i > Len(s) THEN <<SubSeq(s, init, Len(s))>>
    ELSE IF ~is_alphanumeric(s[i])
    THEN <<SubSeq(s, init, i - 1)>> \o split_alphanumeric(s, i + 1, i + 1)
    ELSE split_alphanumeric(s, init, i + 1)

\* heck's word boundaries inside a run of alphanumerics: after a lower-case
\* character followed by an upper-case one, and before the last upper-case
\* character of a run that a lower-case character follows
RECURSIVE case_words(_, _, _, _)
case_words(word, init, i, mode) ==
    IF i > Len(word) THEN <<>>
    ELSE IF i = Len(word) THEN <<SubSeq(word, init, Len(word))>>
    ELSE LET c == word[i]
             next == word[i + 1]
             next_mode == IF is_lowercase(c) THEN "Lowercase"
                          ELSE IF is_uppercase(c) THEN "Uppercase"
                          ELSE mode
         IN IF next_mode = "Lowercase" /\ is_uppercase(next)
            THEN <<SubSeq(word, init, i)>> \o case_words(word, i + 1, i + 1, "Boundary")
            ELSE IF mode = "Uppercase" /\ is_uppercase(c) /\ is_lowercase(next)
            THEN <<SubSeq(word, init, i - 1)>> \o case_words(word, i, i + 1, "Boundary")
            ELSE case_words(word, init, i + 1, next_mode)

\* the words of every run of alphanumerics, in order
RECURSIVE words_of(_, _)
words_of(runs, i) ==
    IF i > Len(runs) THEN <<>>
    ELSE case_words(runs[i], 1, 1, "Boundary") \o words_of(runs, i + 1)

\* heck's lower camel case: the first word in lower case, the others capitalized
RECURSIVE lower_camel(_, _)
lower_camel(ws, i) ==
    IF i > Len(ws) THEN <<>>
    ELSE (IF i = 1 THEN lowercase(ws[i]) ELSE capitalize(ws[i])) \o lower_camel(ws, i + 1)

\* str::to_lower_camel_case
to_lower_camel_case(s) == lower_camel(words_of(split_alphanumeric(s, 1, 1), 1), 1)

\* Category::normalize
normalize(s) == to_lower_camel_case(s)

\* Metadata::is_correlated
is_correlated(self, stream_name) ==
    IF self.correlation_stream_name = None THEN FALSE
    ELSE LET correlation_stream_name == self.correlation_stream_name[1]
             normalized == normalize(stream_name)
         IN IF StreamName_is_category(normalized)
            THEN StreamName_category(correlation_stream_name) = normalized
            ELSE correlation_stream_name = normalized

\* the caller prepares <<correlation_stream_name, argument>>: it sets the
\* correlation to a text, or leaves it absent, before it writes the argument
SetCorrelation ==
    /\ call.op = "input"
    /\ call.arg = <<None, <<>>>>
    /\ call' = [call EXCEPT !.arg[1] = Some(<<>>)]
    /\ UNCHANGED everything_else

TypeCorrelationChar ==
    /\ call.op = "input"
    /\ call.arg[1] # None
    /\ call.arg[2] = <<>>
    /\ Len(call.arg[1][1]) < MaxNameLen
    /\ \E c \in CorrelationChars : call' = [call EXCEPT !.arg[1][1] = Append(@, c)]
    /\ UNCHANGED everything_else

TypeArgumentChar ==
    /\ call.op = "input"
    /\ Len(call.arg[2]) < MaxNameLen
    /\ \E c \in CorrelationChars : call' = [call EXCEPT !.arg[2] = Append(@, c)]
    /\ UNCHANGED everything_else

CallIsCorrelated ==
    /\ call.op = "input"
    /\ LET self == [Metadata_default EXCEPT !.correlation_stream_name = call.arg[1]]
       IN Returns("Metadata::is_correlated", <<self, call.arg[2]>>,
                  is_correlated(self, call.arg[2]))

CorrelationInit == Subscribed({1}, {1}, {ToCall("input", <<None, <<>>>>)})

CorrelationNext ==
    \/ SetCorrelation
    \/ TypeCorrelationChar
    \/ TypeArgumentChar
    \/ CallIsCorrelated

CorrelationSpec == CorrelationInit /\ [][CorrelationNext]_vars

\* ------------------------------------- checkpoint stream names of two engines
\* subscribe_to_category, lines 123-124: the text of the position stream name
\* of category_name and identifier
consumer_stream_name(category_name, identifier) ==
    LET c == Category_from_str(category_name)
    IN IF ~c.ok THEN c
       ELSE LET x == position_stream_name(c.val, identifier)
            IN IF ~x.ok THEN x ELSE Ok(StreamName_fmt(x.val))

\* a text of the caller read as category_name and identifier: the identifier
\* is what follows the first '-', if there is one
Subscription(text) ==
    LET parts == split_once(text, "-")
    IN IF parts = None THEN <<text, None>> ELSE <<parts[1][1], Some(parts[1][2])>>

\* the caller prepares the texts of two subscriptions, the first one first
TypeFirstChar ==
    /\ call.op = "input"
    /\ call.arg[2] = <<>>
    /\ Len(call.arg[1]) < MaxNameLen
    /\ \E c \in Chars : call' = [call EXCEPT !.arg[1] = Append(@, c)]
    /\ UNCHANGED everything_else

TypeSecondChar ==
    /\ call.op = "input"
    /\ Len(call.arg[2]) < MaxNameLen
    /\ \E c \in Chars : call' = [call EXCEPT !.arg[2] = Append(@, c)]
    /\ UNCHANGED everything_else

\* two engines are subscribed: each derives its position stream name
CallConsumerStreamNames ==
    /\ call.op = "input"
    /\ LET first == Subscription(call.arg[1])
           second == Subscription(call.arg[2])
       IN Returns("consumer_stream_name", <<first, second>>,
                  <<consumer_stream_name(first[1], first[2]),
                    consumer_stream_name(second[1], second[2])>>)

DerivationInit == Subscribed({1}, {1}, {ToCall("input", <<<<>>, <<>>>>)})

DerivationNext ==
    \/ TypeFirstChar
    \/ TypeSecondChar
    \/ CallConsumerStreamNames

DerivationSpec == DerivationInit /\ [][DerivationNext]_vars

\* ------------------------------------------------------------------ claims
\* poll_next found the buffer empty and the fetch complete, and processed it
ProcessesFetch ==
    /\ PollNext
    /\ ~PollPanics
    /\ messages = <<>>
    /\ fut.st = "ready"

\* the engine was just subscribed: poll_next has not been called yet
Fresh == lastRet.kind = "none"

WriteFailed(w) == w.res \in {"conflict", "ioerr"}

\* C1: a poll_next that finds the buffer non-empty returns the buffer's head
\* and leaves the pending fetch, the in-flight checkpoint write,
\* messages_since_last_position_update and expected_position_version as
\* they were.
C1_BufferedPollTouchesNothingElse ==
    [][(PollNext /\ messages # <<>>) =>
          /\ lastRet' = Ret("msg", Head(messages).gp)
          /\ messages' = Tail(messages)
          /\ fut' = fut
          /\ update_position_future' = update_position_future
          /\ messages_since_last_position_update' = messages_since_last_position_update
          /\ expected_position_version' = expected_position_version]_vars

\* the checkpoint records stored by the running engine
StoredByRun == {i \in DOMAIN ckpt : i > start.version + 1}

\* C2: every message of the category from the engine's resume point up to
\* the position of a checkpoint record it stored was emitted as a message
\* item by that engine, so a resume at the checkpoint skips nothing.
\* Stated for the messages that decode and for
\* position_update_interval >= 1.
C2_NoMessageSkippedOnResume ==
    position_update_interval >= 1 =>
        \A i \in StoredByRun : \A j \in DOMAIN log :
            (/\ log[j].ok
             /\ log[j].gp >= start.position
             /\ log[j].gp <= ckpt[i].position) => log[j].gp \in emittedRun

C4_FirstFetchResumesAfterCheckpoint ==
    Fresh =>
        /\ fut.st = "armed"
        /\ fut.sleep = 0
        /\ fut.opts.position =
              IF Len(ckpt) = 0 THEN -1 ELSE ckpt[Len(ckpt)].position + 1

C4_Witness ==
    /\ Fresh
    /\ run > 1
    /\ ckpt # <<>>
    /\ fut.opts.position = ckpt[Len(ckpt)].position + 1
    /\ fut.opts.position > 1

\* C5: a freshly started engine's expected version is the stream-local
\* position of the last checkpoint message (-1 for an empty stream), and the
\* first checkpoint write of a run never fails with a version conflict.
C5_FirstWriteHasNoConflict ==
    /\ [](Fresh => expected_position_version = Len(ckpt) - 1)
    /\ [][(/\ update_position_future.st = "inflight"
           /\ update_position_future'.st = "ready"
           /\ update_position_future.ev = start.version)
          => update_position_future'.res # "conflict"]_vars

C5_Witness ==
    /\ run > 1
    /\ start.version >= 0
    /\ update_position_future.st = "ready"
    /\ update_position_future.ev = start.version
    /\ update_position_future.res = "ok"

\* C6: within one engine the message items are non-decreasing in
\* global_position.
C6_EmittedNonDecreasing ==
    [][run' = run => lastMsgGp' >= lastMsgGp]_vars

C6_Witness ==
    /\ lastRet.kind = "msg"
    /\ Cardinality(emittedRun) >= 3
    /\ messages = <<>>

\* C7: a failed checkpoint write is never an item and never stops the
\* engine: the engine's task does not die on a failed checkpoint write.
C7_FailedCheckpointNeverStopsDelivery ==
    /\ lastRet.kind \in {"none", "msg", "fetch_err", "decode_err", "pending", "panic"}
    /\ ~(/\ status = "panicked"
         /\ fut.st # "done"
         /\ update_position_future.st = "done"
         /\ WriteFailed(update_position_future))

\* C8: the poll_next that observes the completion of a failed fetch returns
\* it as an error item, with the next fetch armed.
C8_FailedFetchSurfacedOnce ==
    [][(PollNext /\ fut.st = "ready" /\ ~fut.res.ok) =>
          /\ lastRet'.kind = "fetch_err"
          /\ fut'.st = "armed"]_vars

\* C9: processing a completed fetch re-arms the fetch one past the last
\* message of a successful non-empty batch, and at the same position after
\* a failed fetch or an empty batch; no other option changes.
C9_RearmedFetchPosition ==
    [][ProcessesFetch =>
          /\ fut'.st = "armed"
          /\ fut'.opts =
                [fut.opts EXCEPT !.position =
                    IF fut.res.ok /\ Len(fut.res.msgs) > 0
                    THEN fut.res.msgs[Len(fut.res.msgs)].gp + 1
                    ELSE fut.opts.position]]_vars

C9_Witness ==
    /\ lastRet.kind = "fetch_err"
    /\ fut.st = "armed"
    /\ fut.opts.position > start.position
    /\ fut.opts.position = lastMsgGp + 1

\* C10: with position_update_interval = 0 the engine never starts a
\* checkpoint write and never changes expected_position_version.
C10_ZeroIntervalDisablesCheckpointing ==
    position_update_interval = 0 =>
        /\ update_position_future.st = "none"
        /\ expected_position_version = start.version

\* a checkpoint write that was issued and has not completed
InFlight(w) == w.st \in {"armed", "inflight"}

\* this step puts a new checkpoint write into the slot
IssuesWrite ==
    /\ update_position_future'.st = "armed"
    /\ update_position_future' # update_position_future

\* C11: with position_update_interval >= 1, a poll_next that finds a
\* checkpoint write in flight never issues a new one: the in-flight write is
\* not replaced, dropped or cancelled.
C11_InFlightWriteNeverReplaced ==
    [][(/\ PollNext
        /\ position_update_interval >= 1
        /\ InFlight(update_position_future)) => ~IssuesWrite]_vars

\* C12: processing a non-empty batch adds its length to
\* messages_since_last_position_update; a checkpoint write is issued exactly
\* when the resulting count is >= position_update_interval, and the count is
\* then 0, otherwise it keeps the accumulated value; empty batches, failed
\* fetches and every other step of the run leave the count unchanged and
\* issue no write.
C12_CheckpointEveryInterval ==
    [][run' = run =>
         IF ProcessesFetch /\ fut.res.ok /\ fut.res.msgs # <<>>
         THEN LET n == messages_since_last_position_update + Len(fut.res.msgs)
              IN /\ IssuesWrite <=> n >= position_update_interval
                 /\ messages_since_last_position_update' =
                        IF n >= position_update_interval THEN 0 ELSE n
         ELSE /\ ~IssuesWrite
              /\ messages_since_last_position_update' =
                     messages_since_last_position_update]_vars

\* two batches of one message accumulated to the threshold of 2
C12_Witness ==
    /\ position_update_interval = 2
    /\ batch_size = 1
    /\ lastRet.kind = "msg"
    /\ update_position_future.st = "armed"
    /\ messages_since_last_position_update = 0

C14_ExpectedVersionStepsByOne ==
    /\ [](/\ Fresh => expected_position_version = start.version
          /\ update_position_future.st # "none" =>
                /\ update_position_future.ev >= start.version
                /\ update_position_future.ev < expected_position_version)
    /\ [][run' = run =>
            IF IssuesWrite
            THEN /\ update_position_future'.ev = expected_position_version
                 /\ expected_position_version' = expected_position_version + 1
            ELSE expected_position_version' = expected_position_version]_vars

\* a second write was issued after a write of the run had failed
C14_Witness ==
    /\ failedWrite.this # NoGp
    /\ update_position_future.st = "armed"
    /\ update_position_future.ev = start.version + 1

\* C15: once a checkpoint write of the running engine has failed, its
\* expected_position_version is ahead of the position stream's version,
\* every write it has in flight would be refused with a version conflict,
\* and no write completing afterwards succeeds or changes the position
\* stream.
C15_FailedWriteFailsAllLater ==
    /\ [](failedWrite.this # NoGp =>
            /\ expected_position_version > stream_version
            /\ InFlight(update_position_future) =>
                  write_message(update_position_future, FALSE) = "conflict")
    /\ [][(/\ failedWrite.this # NoGp
           /\ update_position_future.st = "inflight"
           /\ update_position_future'.st = "ready")
          => /\ WriteFailed(update_position_future')
             /\ ckpt' = ckpt]_vars

\* a later write was refused with a version conflict
C15_Witness ==
    /\ failedWrite.this # NoGp
    /\ update_position_future.st = "ready"
    /\ update_position_future.res = "conflict"
    /\ update_position_future.pos > failedWrite.this

\* C16: when a message of a fetched batch fails to decode, poll_next returns
\* one decode-error item, emits none of the batch's messages and leaves the
\* buffer empty.
C16_DecodeFailureFailsBatch ==
    [][(/\ ProcessesFetch
        /\ fut.res.ok
        /\ \E i \in DOMAIN fut.res.msgs : ~fut.res.msgs[i].ok)
       => /\ lastRet'.kind = "decode_err"
          /\ messages' = <<>>
          /\ emittedRun' = emittedRun
          /\ lastMsgGp' = lastMsgGp]_vars

\* a batch whose first message decodes and whose second does not
C16_Witness ==
    /\ lastRet.kind = "decode_err"
    /\ batch_size > 1
    /\ Len(log) >= 2
    /\ log[1].ok
    /\ ~log[2].ok
    /\ emittedRun = {}
    /\ messages = <<>>
    /\ fut.opts.position > log[2].gp

\* C18: the fetch armed after a completed fetch waits
\* max(0, poll_interval - elapsed): never negative, zero when the fetch took
\* at least poll_interval, and the same after failed and empty fetches.
C18_DelayIsSaturatingDifference ==
    [][ProcessesFetch =>
          /\ lastElapsed' \in 0..MaxElapsed
          /\ fut'.st = "armed"
          /\ fut'.sleep >= 0
          /\ fut'.sleep = IF lastElapsed' >= PollInterval
                          THEN 0
                          ELSE PollInterval - lastElapsed']_vars

\* a failed fetch that took longer than poll_interval
C18_Witness ==
    /\ lastRet.kind = "fetch_err"
    /\ lastElapsed > PollInterval
    /\ fut.st = "armed"
    /\ fut.sleep = 0

\* C17: whenever the buffer is non-empty, or the pending fetch has completed
\* with a non-empty batch that decodes, a poll_next made while a checkpoint
\* write is in flight returns a message.
C17_DeliveryNeverWaitsForCheckpoint ==
    [][(/\ PollNext
        /\ InFlight(update_position_future)
        /\ \/ messages # <<>>
           \/ /\ fut.st = "ready"
              /\ fut.res.ok
              /\ fut.res.msgs # <<>>
              /\ deserialize_messages(fut.res.msgs))
       => lastRet'.kind = "msg"]_vars

\* C19: under fair polling and a store whose fetches eventually succeed,
\* every message written to a category is eventually emitted by the
\* category's engine (one sub-engine of a merge, which select_all polls
\* like any other), unless some message of the category does not decode.
C19_EveryMessageEventuallyEmitted ==
    \A n \in 1..MaxMsgsLong :
        (Len(log) >= n /\ log[n].ok)
            ~> (global_position(n) \in emittedRun \/ Bad > 0)

\* C20: every poll_next returns an item or "no item yet": the engine never
\* ends, so a sub-engine of a merge never terminates and never stops the
\* others.
C20_PollNextAlwaysReturns ==
    [][PollNext =>
          lastRet'.kind \in {"msg", "fetch_err", "decode_err", "pending"}]_vars

\* the call of `op` has returned
Returned(op) == call.op = op /\ call.done

\* C21: a stream name the parser produced formats to a text that parses to
\* the same stream name, and that text is the text it was parsed from.
C21_StreamNameRoundTrip ==
    (Returned("StreamName::from_str") /\ call.ret.ok) =>
        LET x == call.ret.val
        IN /\ StreamName_from_str(StreamName_fmt(x)).ok
           /\ StreamName_from_str(StreamName_fmt(x)).val = x
           /\ StreamName_fmt(x) = call.arg[1]

\* "a-a+p": a category and a compound id
C21_Witness ==
    /\ Returned("StreamName::from_str")
    /\ call.arg[1] = <<"a", "-", "a", "+", "p">>
    /\ call.ret.ok
    /\ call.ret.val.id = Some(<<<<"a">>, <<"p">>>>)

\* C22: every Category that Category::new or the parser produces has a
\* non-empty entity_name; Category::new fails on an empty name.
C22_EntityNameNeverEmpty ==
    /\ Returned("Category::new") => (call.ret.ok <=> call.arg[1] # <<>>)
    /\ (Returned("StreamName::from_str") /\ call.ret.ok) =>
            call.ret.val.category.entity_name # <<>>

\* an id in which every component is non-empty, and that has one
ValidID(ids) == ids # <<>> /\ \A i \in DOMAIN ids : ids[i] # <<>>

\* a text that is empty or has an empty '+'-separated component
EmptyComponent(s) ==
    \/ s = <<>>
    \/ s[1] = "+"
    \/ s[Len(s)] = "+"
    \/ \E i \in 1..(Len(s) - 1) : s[i] = "+" /\ s[i + 1] = "+"

HasDash(s) == \E i \in DOMAIN s : s[i] = "-"

FirstDash(s) == CHOOSE i \in DOMAIN s : s[i] = "-" /\ \A j \in 1..(i - 1) : s[j] # "-"

BeforeDash(s) == SubSeq(s, 1, FirstDash(s) - 1)

AfterDash(s) == SubSeq(s, FirstDash(s) + 1, Len(s))

\* C23: every ID that ID::new, ID::new_compound or the parser produces is a
\* non-empty sequence of non-empty components whose cardinal_id is its first
\* component; an empty id or an empty component is refused with the
\* empty-identifier error.
C23_IdComponentsNeverEmpty ==
    /\ Returned("ID::new") =>
          /\ call.ret.ok <=> ~EmptyComponent(call.arg[1])
          /\ call.ret.ok =>
                /\ ValidID(call.ret.val)
                /\ ID_cardinal_id(call.ret.val) = call.ret.val[1]
          /\ ~call.ret.ok => call.ret.err = "EmptyStreamName"
    /\ Returned("ID::new_compound") =>
          /\ call.ret.ok <=> ValidID(call.arg[1])
          /\ call.ret.ok =>
                /\ call.ret.val = call.arg[1]
                /\ ID_cardinal_id(call.ret.val) = call.arg[1][1]
          /\ ~call.ret.ok => call.ret.err = "EmptyStreamName"
    /\ (Returned("StreamName::from_str") /\ HasDash(call.arg[1])) =>
          /\ EmptyComponent(AfterDash(call.arg[1])) =>
                /\ ~call.ret.ok
                /\ call.ret.err = "EmptyStreamName"
          /\ call.ret.ok =>
                /\ ValidID(call.ret.val.id[1])
                /\ ID_cardinal_id(call.ret.val.id[1]) = call.ret.val.id[1][1]

\* "a-a+": the id has an empty component
C23_Witness ==
    /\ Returned("StreamName::from_str")
    /\ call.arg[1] = <<"a", "-", "a", "+">>
    /\ ~call.ret.ok
    /\ call.ret.err = "EmptyStreamName"

\* C24: is_category(text) is true if and only if the text contains no '-'.
C24_IsCategoryIffNoSeparator ==
    Returned("StreamName::is_category") => (call.ret <=> ~HasDash(call.arg[1]))

\* C25: the parser takes the category from the text before the first '-' and
\* the id from the whole text after it, and StreamName::category returns the
\* text before the first '-', or the whole text when it has none.
C25_FirstDashIsTheBoundary ==
    /\ Returned("StreamName::category") =>
          call.ret = IF HasDash(call.arg[1]) THEN BeforeDash(call.arg[1])
                     ELSE call.arg[1]
    /\ (Returned("StreamName::from_str") /\ call.ret.ok) =>
          IF HasDash(call.arg[1])
          THEN /\ call.ret.val.category = Category_from_str(BeforeDash(call.arg[1])).val
               /\ ID_from_str(AfterDash(call.arg[1])).ok
               /\ call.ret.val.id = Some(ID_from_str(AfterDash(call.arg[1])).val)
          ELSE /\ call.ret.val.category = Category_from_str(call.arg[1]).val
               /\ call.ret.val.id = None

\* "a-a-p": the second '-' is a character of the id
C25_Witness ==
    /\ Returned("StreamName::from_str")
    /\ call.arg[1] = <<"a", "-", "a", "-", "p">>
    /\ call.ret.ok
    /\ call.ret.val.category.entity_name = <<"a">>
    /\ call.ret.val.id = Some(<<<<"a", "-", "p">>>>)

\* the items with sep between them
RECURSIVE Joined(_, _)
Joined(items, sep) ==
    IF items = <<>> THEN <<>>
    ELSE IF Len(items) = 1 THEN items[1]
    ELSE items[1] \o <<sep>> \o Joined(Tail(items), sep)

\* C26: a stream name formats as its entity name, then ':' and the types
\* joined with '+' when it has types, then '-' and the id components joined
\* with '+' when it has an id.
C26_FormatOfStreamName ==
    Returned("StreamName::fmt") =>
        LET x == call.arg[1]
        IN call.ret =
              x.category.entity_name
                \o (IF x.category.types # <<>>
                    THEN <<":">> \o Joined(x.category.types, "+") ELSE <<>>)
                \o (IF x.id # None
                    THEN <<"-">> \o Joined(x.id[1], "+") ELSE <<>>)

\* entity "a" with the types "a" and "p" formats as "a:a+p"
C26_Witness ==
    /\ Returned("StreamName::fmt")
    /\ call.arg[1] = [category |-> [entity_name |-> <<"a">>,
                                    types |-> <<<<"a">>, <<"p">>>>],
                      id |-> None]
    /\ call.ret = <<"a", ":", "a", "+", "p">>

\* C27: the checkpoint stream name of a category is the category with the
\* position type appended to its types if and only if it is not among them,
\* and with the consumer identifier, if given, as its id; deriving it again
\* from its own category gives the same stream name.
C27_PositionStreamName ==
    (Returned("position_stream_name") /\ call.ret.ok) =>
        LET c == call.arg[1]
            r == call.ret.val
            present == \E i \in DOMAIN c.types : c.types[i] = POSITION_TYPE
        IN /\ r.category.entity_name = c.entity_name
           /\ r.category.types = IF present THEN c.types
                                 ELSE c.types \o <<POSITION_TYPE>>
           /\ call.arg[2] = None => r.id = None
           /\ call.arg[2] # None =>
                 /\ r.id # None
                 /\ Joined(r.id[1], "+") = call.arg[2][1]
           /\ position_stream_name(r.category, call.arg[2]).ok
           /\ position_stream_name(r.category, call.arg[2]).val = r

\* "a:a" with the identifier "a" gives "a:a+p-a"
C27_Witness ==
    /\ Returned("position_stream_name")
    /\ call.arg[1] = [entity_name |-> <<"a">>, types |-> <<<<"a">>>>]
    /\ call.arg[2] = Some(<<"a">>)
    /\ call.ret.ok
    /\ StreamName_fmt(call.ret.val) = <<"a", ":", "a", "+", "p", "-", "a">>

\* C28: C.follow(B) sets C's causation fields to B's own stream_name,
\* position and global_position and copies B's correlation_stream_name and
\* reply_stream_name into C; C's own fields stay.
C28_FollowCopiesOwnFields ==
    Returned("Metadata::follow") =>
        LET c == call.arg[1]
            b == call.arg[2]
            r == call.ret
        IN /\ r.causation_message_stream_name = b.stream_name
           /\ r.causation_message_position = b.position
           /\ r.causation_message_global_position = b.global_position
           /\ r.correlation_stream_name = b.correlation_stream_name
           /\ r.reply_stream_name = b.reply_stream_name
           /\ r.stream_name = c.stream_name
           /\ r.position = c.position
           /\ r.global_position = c.global_position

\* B's own fields differ from B's causation fields
C28_Witness ==
    /\ Returned("Metadata::follow")
    /\ call.arg[2].stream_name = Some(1)
    /\ call.arg[2].position = Some(1)
    /\ call.arg[2].global_position = Some(1)
    /\ call.arg[2].causation_message_stream_name = Some(2)
    /\ call.arg[1].causation_message_stream_name = Some(MaxVal)
    /\ call.ret.causation_message_stream_name = Some(1)
    /\ call.ret.causation_message_position = Some(1)

\* C29 as stated: after C.follow(B), C.follows(B) is true for all B and C.
C29_FollowThenFollows ==
    Returned("Metadata::follow") => follows(call.ret, call.arg[2])

\* C29, amended: after C.follow(B), C.follows(B) is true exactly when B's
\* stream_name, position and global_position are all present.
C29_FollowThenFollowsIfIdentified ==
    Returned("Metadata::follow") =>
        (follows(call.ret, call.arg[2]) <=>
            /\ call.arg[2].stream_name # None
            /\ call.arg[2].position # None
            /\ call.arg[2].global_position # None)

\* B has its own fields and a reply address, and C had another one
C29_Witness ==
    /\ Returned("Metadata::follow")
    /\ call.arg[2].stream_name = Some(1)
    /\ call.arg[2].position = Some(2)
    /\ call.arg[2].global_position = Some(1)
    /\ call.arg[2].reply_stream_name = Some(1)
    /\ call.arg[1].reply_stream_name = Some(MaxVal)
    /\ follows(call.ret, call.arg[2])

\* C30: C.follows(B) is false whenever a causation field of C differs from
\* B's corresponding own field.
C30_FollowsFalseOnMismatch ==
    Returned("Metadata::follows") =>
        LET c == call.arg[1]
            b == call.arg[2]
        IN (\/ c.causation_message_stream_name # b.stream_name
            \/ c.causation_message_position # b.position
            \/ c.causation_message_global_position # b.global_position)
           => call.ret = FALSE

\* only the positions differ, both present
C30_Witness ==
    /\ Returned("Metadata::follows")
    /\ call.arg[1].causation_message_stream_name = Some(1)
    /\ call.arg[2].stream_name = Some(1)
    /\ call.arg[1].causation_message_position = Some(1)
    /\ call.arg[2].position = Some(2)
    /\ call.arg[1].causation_message_global_position = Some(1)
    /\ call.arg[2].global_position = Some(1)
    /\ call.arg[2].correlation_stream_name = None
    /\ call.arg[2].reply_stream_name = None
    /\ call.ret = FALSE

\* C31: is_correlated(arg) is false when correlation_stream_name is absent;
\* when arg is a category (it holds no '-') it is true iff the category part
\* of correlation_stream_name equals the normalized arg; when arg is an
\* entity stream it is true iff correlation_stream_name equals arg exactly.
C31_IsCorrelated ==
    Returned("Metadata::is_correlated") =>
        LET correlation == call.arg[1].correlation_stream_name
            argument == call.arg[2]
        IN call.ret =
              IF correlation = None THEN FALSE
              ELSE IF ~contains(argument, ID_SEPARATOR)
              THEN StreamName_category(correlation[1]) = normalize(argument)
              ELSE correlation[1] = argument

\* C32: no completed fetch result is discarded: the poll_next that observes
\* a completed fetch processes its batch (buffers it and returns its first
\* message, or returns its error) and arms the next fetch, also when the
\* buffer still holds messages.
C32_NoFetchResultDiscarded ==
    [][(PollNext /\ fut.st = "ready") =>
          /\ fut'.st = "armed"
          /\ ~fut.res.ok => lastRet'.kind = "fetch_err"
          /\ (fut.res.ok /\ fut.res.msgs # <<>> /\ deserialize_messages(fut.res.msgs)) =>
                /\ lastRet' = Ret("msg", Head(messages \o fut.res.msgs).gp)
                /\ messages' = Tail(messages \o fut.res.msgs)]_vars

\* C33: the engine never polls an operation that has already completed: no
\* slot of a running engine holds a fetch or a checkpoint write whose result
\* was already returned.
C33_NoCompletedOperationPolled ==
    /\ fut.st # "done"
    /\ update_position_future.st # "done"

\* C34: whenever poll_next returns "no item yet", the armed fetch has been
\* polled in that call, so its completion wakes the consumer.
C34_PendingOnlyWithPolledFetch ==
    [][(PollNext /\ lastRet'.kind = "pending") => fut'.st # "armed"]_vars

\* C35: with position_update_interval >= 1 and no earlier failed write in
\* the run (so none failed for another reason than a version mismatch),
\* every checkpoint write of the only engine expects the version the
\* position stream has when the write executes: it is not refused.
C35_NoWriteEverConflicts ==
    [][(/\ position_update_interval >= 1
        /\ failedWrite.this = NoGp
        /\ update_position_future.st = "inflight"
        /\ update_position_future'.st = "ready")
       => /\ update_position_future.ev = stream_version
          /\ update_position_future'.res # "conflict"]_vars

\* C36: with position_update_interval >= 1, processing a batch that fails
\* to decode issues no checkpoint write and leaves
\* messages_since_last_position_update and expected_position_version as
\* they were.
C36_DecodeFailureLeavesStateAlone ==
    [][(/\ ProcessesFetch
        /\ position_update_interval >= 1
        /\ fut.res.ok
        /\ ~deserialize_messages(fut.res.msgs))
       => /\ ~IssuesWrite
          /\ messages_since_last_position_update' = messages_since_last_position_update
          /\ expected_position_version' = expected_position_version]_vars

\* C37: the positions of successive records of the position stream are
\* strictly increasing, within one run and across restarts.
C37_CheckpointNeverMovesBack ==
    \A i, j \in DOMAIN ckpt : i < j => ckpt[i].position < ckpt[j].position

\* a later engine stored a record after the record of an earlier engine
C37_Witness ==
    /\ run > 1
    /\ Len(ckpt) >= 2
    /\ StoredByRun # {}
    /\ start.version >= 0
    /\ Last(ckpt).position > ckpt[1].position

\* C38: a batch is placed in the buffer only when the buffer is empty: a
\* poll_next that finds messages in the buffer only removes the first, the
\* buffer otherwise changes only when a fetched batch that decodes replaces
\* the empty buffer (its first message is returned, the rest is buffered in
\* order), and the buffer never holds a whole batch.
C38_BatchBufferedOnlyWhenEmpty ==
    /\ [](Len(messages) < batch_size \/ messages = <<>>)
    /\ [][run' = run =>
            IF messages # <<>>
            THEN PollNext => messages' = Tail(messages)
            ELSE \/ messages' = <<>>
                 \/ /\ ProcessesFetch
                    /\ fut.res.ok
                    /\ messages' = Tail(fut.res.msgs)
                    /\ lastRet' = Ret("msg", fut.res.msgs[1].gp)]_vars

\* the rest of a batch of three messages, in the order of the batch
C38_Witness ==
    /\ Len(messages) = 2
    /\ lastRet.kind = "msg"
    /\ lastRet.gp < messages[1].gp
    /\ messages[1].gp < messages[2].gp

\* C39: within one run the global_position of every message item is above
\* that of the previous message item of the run; items that are errors and
\* "no item yet" leave the position of the previous message item unchanged.
C39_EmittedStrictlyIncreasing ==
    [][(PollNext /\ run' = run) =>
          IF lastRet'.kind = "msg"
          THEN /\ lastRet'.gp > lastMsgGp
               /\ lastMsgGp' = lastRet'.gp
               /\ lastRet'.gp \notin emittedRun
          ELSE lastMsgGp' = lastMsgGp]_vars

\* a message is emitted after an earlier message and a failed fetch
C39_Witness ==
    /\ lastRet.kind = "fetch_err"
    /\ Cardinality(emittedRun) >= 2
    /\ lastMsgGp = global_position(2)
    /\ fut.opts.position = lastMsgGp + 1

\* the category of a subscription already carries the type "position"
HasPositionType(category_name) ==
    \E k \in DOMAIN Category_from_str(category_name).val.types :
        Category_from_str(category_name).val.types[k] = POSITION_TYPE

\* C40 as stated: two different (category, identifier) pairs never derive
\* the same checkpoint stream name.  Stated for categories whose entity name
\* is not empty.
C40_DerivationInjective ==
    (/\ Returned("consumer_stream_name")
     /\ call.arg[1] # call.arg[2]
     /\ \A i \in 1..2 :
           /\ call.ret[i].ok
           /\ Category_from_str(call.arg[i][1]).val.entity_name # <<>>)
    => call.ret[1].val # call.ret[2].val

\* C40: two different (category, identifier) pairs whose categories contain
\* no '-' and do not already carry the type "position" never derive the same
\* checkpoint stream name.
C40_DerivationInjectiveOffPosition ==
    (/\ Returned("consumer_stream_name")
     /\ call.arg[1] # call.arg[2]
     /\ \A i \in 1..2 :
           /\ call.ret[i].ok
           /\ ~contains(call.arg[i][1], ID_SEPARATOR)
           /\ ~HasPositionType(call.arg[i][1]))
    => call.ret[1].val # call.ret[2].val

\* a category with a type and no identifier, and a category with an identifier
C40_Witness ==
    /\ Returned("consumer_stream_name")
    /\ call.arg = <<<<<<"a", ":", "a">>, None>>, <<<<"a">>, Some(<<"a">>)>>>>
    /\ call.ret = <<Ok(<<"a", ":", "a", "+", "p">>), Ok(<<"a", ":", "p", "-", "a">>)>>

====
